---- MODULE Spec2Model ----
(***************************************************************************)
(* Model of src/src/hyperfine/internal.rs: the parameter tokenizer         *)
(* (tokenize) and the relative-speed comparison (compare_mean_time,        *)
(* compute_relative_speed, write_benchmark_comparison).                    *)
(*                                                                         *)
(* Strings are sequences of one-character strings.  An f64 is an IEEE 754  *)
(* binary64 value, its 53-bit mantissa held in 15-bit limbs, and every     *)
(* operation on it rounds as the hardware does.                            *)
(***************************************************************************)
EXTENDS Integers, Sequences, FiniteSets, TLC

VARIABLES
    values,     \* tokenize: the input string
    iter,       \* tokenize: position of the next character of values.chars()
    buf,        \* tokenize: the token being built
    tokens,     \* tokenize: the tokens pushed so far
    orig,       \* the list of values the input was escaped and joined from, or <<>>
    results,    \* the slice of BenchmarkResult handed to the comparison
    annotated,  \* the Vec<BenchmarkResultWithRelativeSpeed> built from it
    output,     \* the lines printed on stdout
    pc          \* where the running call is

tokvars == <<values, iter, buf, tokens, orig>>

relvars == <<results, annotated, output>>

vars == <<values, iter, buf, tokens, orig, results, annotated, output, pc>>

----------------------------------------------------------------------------
(* Bounds and input alphabets *)

MaxLen == 5
MaxTokens == 2
MaxTokLen == 2

BS == "\\"
COMMA == ","

Chars == {"a", "n", COMMA, BS}

RECURSIVE SeqsUpTo(_, _)
SeqsUpTo(S, n) ==
    IF n = 0 THEN {<<>>}
    ELSE LET shorter == SeqsUpTo(S, n - 1)
         IN  shorter \cup {Append(s, x) : s \in {t \in shorter : Len(t) = n - 1}, x \in S}

Strings == SeqsUpTo(Chars, MaxLen)

TokenStrings == SeqsUpTo({"a", COMMA, BS}, MaxTokLen)

Lists == SeqsUpTo(TokenStrings, MaxTokens) \ {<<>>}

----------------------------------------------------------------------------
(* The caller's side of the round trip: escape every value, join with ','. *)

RECURSIVE escape(_)
escape(s) ==
    IF s = <<>> THEN <<>>
    ELSE LET c == Head(s)
         IN  (IF c = BS THEN <<BS, BS>>
              ELSE IF c = COMMA THEN <<BS, COMMA>>
              ELSE <<c>>) \o escape(Tail(s))

RECURSIVE join_escaped(_)
join_escaped(list) ==
    IF Len(list) = 1 THEN escape(list[1])
    ELSE escape(Head(list)) \o <<COMMA>> \o join_escaped(Tail(list))

----------------------------------------------------------------------------
(* tokenize: internal.rs 156-186 *)

\* An escape_pair variant that drops the backslash of an unrecognised escape.
escape_pair_dropping(b, c2) == Append(b, c2)

\* An escape_pair variant that keeps every pair as written.
escape_pair_verbatim(b, c2) == Append(Append(b, BS), c2)

\* match iter.next() after a backslash, the two Some(..) arms (164-170)
escape_pair(b, c2) ==
    IF c2 = COMMA \/ c2 = BS THEN Append(b, c2)
    ELSE Append(Append(b, BS), c2)

\* let mut tokens = vec![]; let mut buf = String::new(); values.chars()
InitTok ==
    /\ \/ orig = <<>> /\ values \in Strings
       \/ orig \in Lists /\ values = join_escaped(orig)
    /\ iter = 1
    /\ buf = <<>>
    /\ tokens = <<>>
    /\ pc = "scan"
    /\ results = <<>>
    /\ annotated = <<>>
    /\ output = <<>>

\* '\\' => match iter.next() { Some(c2) => ... }
EscapePair ==
    /\ pc = "scan"
    /\ iter < Len(values)
    /\ values[iter] = BS
    /\ buf' = escape_pair(buf, values[iter + 1])
    /\ iter' = iter + 2
    /\ UNCHANGED <<values, tokens, pc, orig, relvars>>

\* '\\' => match iter.next() { None => buf.push('\\') }
EscapeAtEnd ==
    /\ pc = "scan"
    /\ iter = Len(values)
    /\ values[iter] = BS
    /\ buf' = Append(buf, BS)
    /\ iter' = iter + 1
    /\ UNCHANGED <<values, tokens, pc, orig, relvars>>

\* A Separator variant that forgets to push the finished token.
SeparatorNoPush ==
    /\ pc = "scan"
    /\ iter <= Len(values)
    /\ values[iter] = COMMA
    /\ buf' = <<>>
    /\ iter' = iter + 1
    /\ UNCHANGED <<values, tokens, pc, orig, relvars>>

\* ',' => { tokens.push(buf); buf = String::new(); }
Separator ==
    /\ pc = "scan"
    /\ iter <= Len(values)
    /\ values[iter] = COMMA
    /\ tokens' = Append(tokens, buf)
    /\ buf' = <<>>
    /\ iter' = iter + 1
    /\ UNCHANGED <<values, pc, orig, relvars>>

\* _ => buf.push(c)
Plain ==
    /\ pc = "scan"
    /\ iter <= Len(values)
    /\ values[iter] # BS
    /\ values[iter] # COMMA
    /\ buf' = Append(buf, values[iter])
    /\ iter' = iter + 1
    /\ UNCHANGED <<values, tokens, pc, orig, relvars>>

\* the loop ends: tokens.push(buf); tokens
Finish ==
    /\ pc = "scan"
    /\ iter > Len(values)
    /\ tokens' = Append(tokens, buf)
    /\ pc' = "done"
    /\ UNCHANGED <<values, iter, buf, orig, relvars>>

NextTok ==
    \/ EscapePair
    \/ EscapeAtEnd
    \/ Separator
    \/ Plain
    \/ Finish

SpecTok == InitTok /\ [][NextTok]_vars

----------------------------------------------------------------------------
(* Naturals wider than an integer of the checker: little-endian sequences  *)
(* of 15-bit limbs whose top limb is not zero; <<>> is zero.               *)

Base == 2 ^ 15

Front(v) == SubSeq(v, 1, Len(v) - 1)

limb(a, i) == IF i <= Len(a) THEN a[i] ELSE 0

RECURSIVE zeros(_)
zeros(k) == IF k = 0 THEN <<>> ELSE <<0>> \o zeros(k - 1)

RECURSIVE trim(_)
trim(a) == IF a # <<>> /\ a[Len(a)] = 0 THEN trim(Front(a)) ELSE a

\* the wide natural holding the integer n >= 0
RECURSIVE big(_)
big(n) == IF n = 0 THEN <<>> ELSE <<n % Base>> \o big(n \div Base)

\* the integer a wide natural holds, when it fits
RECURSIVE small(_)
small(a) == IF a = <<>> THEN 0 ELSE a[1] + Base * small(Tail(a))

RECURSIVE cmp_from(_, _, _)
cmp_from(a, b, i) ==
    IF i = 0 THEN 0
    ELSE IF a[i] < b[i] THEN -1
    ELSE IF a[i] > b[i] THEN 1
    ELSE cmp_from(a, b, i - 1)

\* -1, 0 or 1 as a is below, equal to or above b
big_cmp(a, b) ==
    IF Len(a) < Len(b) THEN -1
    ELSE IF Len(a) > Len(b) THEN 1
    ELSE cmp_from(a, b, Len(a))

RECURSIVE add_from(_, _, _, _)
add_from(a, b, i, c) ==
    IF i > Len(a) /\ i > Len(b) THEN (IF c = 0 THEN <<>> ELSE <<c>>)
    ELSE LET s == limb(a, i) + limb(b, i) + c
         IN  <<s % Base>> \o add_from(a, b, i + 1, s \div Base)

big_add(a, b) == add_from(a, b, 1, 0)

RECURSIVE sub_from(_, _, _, _)
sub_from(a, b, i, c) ==
    IF i > Len(a) THEN <<>>
    ELSE LET s == a[i] - limb(b, i) - c
         IN  <<s % Base>> \o sub_from(a, b, i + 1, IF s < 0 THEN 1 ELSE 0)

\* a - b, for a >= b
big_sub(a, b) == trim(sub_from(a, b, 1, 0))

RECURSIVE mul_small_from(_, _, _, _)
mul_small_from(a, k, i, c) ==
    IF i > Len(a) THEN (IF c = 0 THEN <<>> ELSE <<c>>)
    ELSE LET s == a[i] * k + c
         IN  <<s % Base>> \o mul_small_from(a, k, i + 1, s \div Base)

\* a * k, for 0 <= k < Base
mul_small(a, k) == IF k = 0 THEN <<>> ELSE mul_small_from(a, k, 1, 0)

RECURSIVE big_mul(_, _)
big_mul(a, b) ==
    IF a = <<>> \/ b = <<>> THEN <<>>
    ELSE LET rest == big_mul(a, Tail(b))
         IN  big_add(mul_small(a, b[1]), IF rest = <<>> THEN <<>> ELSE <<0>> \o rest)

\* a * 2^k
shl(a, k) ==
    IF a = <<>> THEN <<>> ELSE zeros(k \div 15) \o mul_small(a, 2 ^ (k % 15))

\* a \div 2^k
shr(a, k) ==
    IF k \div 15 >= Len(a) THEN <<>>
    ELSE LET r == k % 15
             t == SubSeq(a, k \div 15 + 1, Len(a))
         IN  trim([i \in 1..Len(t) |->
                     (t[i] \div 2 ^ r) + (limb(t, i + 1) % 2 ^ r) * 2 ^ (15 - r)])

\* a % 2^k
low_bits(a, k) ==
    IF k \div 15 >= Len(a) THEN a
    ELSE trim(Append(SubSeq(a, 1, k \div 15), a[k \div 15 + 1] % 2 ^ (k % 15)))

RECURSIVE width(_)
width(n) == IF n = 0 THEN 0 ELSE 1 + width(n \div 2)

\* the number of bits of a
bits(a) == IF a = <<>> THEN 0 ELSE 15 * (Len(a) - 1) + width(a[Len(a)])

\* bit i of a, the lowest being bit 0
bit(a, i) == (limb(a, i \div 15 + 1) \div 2 ^ (i % 15)) % 2

\* the number of zero bits below the lowest one bit of a # 0
RECURSIVE trailing_zeros(_)
trailing_zeros(a) ==
    IF a[1] = 0 THEN 15 + trailing_zeros(Tail(a))
    ELSE IF a[1] % 2 = 1 THEN 0
    ELSE 1 + trailing_zeros(<<a[1] \div 2>>)

\* limbs i..1 of a divided by the single limb d, r carried in from above
RECURSIVE short_div(_, _, _, _)
short_div(a, d, i, r) ==
    IF i = 0 THEN [q |-> <<>>, r |-> big(r)]
    ELSE LET cur == r * Base + a[i]
             low == short_div(a, d, i - 1, cur % d)
         IN  [q |-> Append(low.q, cur \div d), r |-> low.r]

\* the largest x in lo..hi with d * x <= cur
RECURSIVE div_digit(_, _, _, _)
div_digit(cur, d, lo, hi) ==
    IF lo = hi THEN lo
    ELSE LET mid == (lo + hi + 1) \div 2
         IN  IF big_cmp(mul_small(d, mid), cur) <= 0
             THEN div_digit(cur, d, mid, hi)
             ELSE div_digit(cur, d, lo, mid - 1)

\* schoolbook division, a limb of the quotient at a time: quotient and
\* remainder of the limbs i.. of n by d
RECURSIVE long_div(_, _, _)
long_div(n, d, i) ==
    IF i > Len(n) THEN [q |-> <<>>, r |-> <<>>]
    ELSE LET up == long_div(n, d, i + 1)
             cur == trim(<<n[i]>> \o up.r)
             x == div_digit(cur, d, 0, Base - 1)
         IN  [q |-> trim(<<x>> \o up.q), r |-> big_sub(cur, mul_small(d, x))]

\* quotient and remainder of n by d # 0
divmod(n, d) ==
    IF Len(d) = 1
    THEN LET s == short_div(n, d[1], Len(n), 0) IN [q |-> trim(s.q), r |-> s.r]
    ELSE long_div(n, d, 1)

\* the largest x in lo..hi with (p2 + x) * x <= cur
RECURSIVE sqrt_digit(_, _, _, _)
sqrt_digit(cur, p2, lo, hi) ==
    IF lo = hi THEN lo
    ELSE LET mid == (lo + hi + 1) \div 2
         IN  IF big_cmp(mul_small(big_add(p2, big(mid)), mid), cur) <= 0
             THEN sqrt_digit(cur, p2, mid, hi)
             ELSE sqrt_digit(cur, p2, lo, mid - 1)

\* schoolbook square root, a limb of the root for two of n: root and
\* remainder of the limbs i.. of n, an even number of them
RECURSIVE isqrt_from(_, _)
isqrt_from(n, i) ==
    IF i > Len(n) THEN [root |-> <<>>, rem |-> <<>>]
    ELSE LET up == isqrt_from(n, i + 2)
             cur == trim(<<n[i], n[i + 1]>> \o up.rem)
             p2 == IF up.root = <<>> THEN <<>> ELSE <<0>> \o mul_small(up.root, 2)
             x == sqrt_digit(cur, p2, 0, Base - 1)
         IN  [root |-> trim(<<x>> \o up.root),
              rem |-> big_sub(cur, mul_small(big_add(p2, big(x)), x))]

\* floor(sqrt(n)) and what is left of n
isqrt(n) == isqrt_from(IF Len(n) % 2 = 1 THEN Append(n, 0) ELSE n, 1)

----------------------------------------------------------------------------
(* f64: IEEE 754 binary64, round to nearest, ties to even.  A finite value *)
(* is (-1)^sign * mant * 2^exp with mant a wide natural that is odd, or    *)
(* zero (then exp = 0).                                                    *)

MaxResults == 3
MaxMean == 3

\* f64::NAN
NaN == [kind |-> "nan", sign |-> 0, mant |-> <<>>, exp |-> 0]

inf(sign) == [kind |-> "inf", sign |-> sign, mant |-> <<>>, exp |-> 0]

zero(sign) == [kind |-> "fin", sign |-> sign, mant |-> <<>>, exp |-> 0]

is_nan(x) == x.kind = "nan"

is_zero(x) == x.kind = "fin" /\ x.mant = <<>>

imax(a, b) == IF a >= b THEN a ELSE b

imin(a, b) == IF a <= b THEN a ELSE b

\* The f64 nearest to (-1)^sign * v, where v = n * 2^e when ~sticky and
\* n * 2^e < v < (n + 1) * 2^e when sticky (n then has 55 bits or more):
\* 53 significant bits, fewer below 2^-1022, infinity from 2^1024 on.
round_f64(sign, n, e, sticky) ==
    IF n = <<>> THEN zero(sign)
    ELSE LET sh == imax(imax(bits(n) - 53, -1074 - e), 0)
             q == shr(n, sh)
             c == IF sh = 0 THEN -1 ELSE big_cmp(low_bits(n, sh), shl(<<1>>, sh - 1))
             up == c > 0 \/ (c = 0 /\ (sticky \/ bit(q, 0) = 1))
             r == IF up THEN big_add(q, <<1>>) ELSE q
         IN  IF r = <<>> THEN zero(sign)
             ELSE IF bits(r) + e + sh > 1024 THEN inf(sign)
             ELSE LET z == trailing_zeros(r)
                  IN  [kind |-> "fin", sign |-> sign, mant |-> shr(r, z),
                       exp |-> e + sh + z]

\* n as f64, for an integer n
from_int(n) == round_f64(IF n < 0 THEN 1 ELSE 0, big(IF n < 0 THEN -n ELSE n), 0, FALSE)

\* a * b
fmul(a, b) ==
    IF is_nan(a) \/ is_nan(b) THEN NaN
    ELSE IF (a.kind = "inf" /\ is_zero(b)) \/ (is_zero(a) /\ b.kind = "inf") THEN NaN
    ELSE IF a.kind = "inf" \/ b.kind = "inf" THEN inf((a.sign + b.sign) % 2)
    ELSE round_f64((a.sign + b.sign) % 2, big_mul(a.mant, b.mant), a.exp + b.exp, FALSE)

\* a / b: the quotient of the mantissas is taken to 55 bits or more, what is
\* left over makes it sticky
fdiv(a, b) ==
    IF is_nan(a) \/ is_nan(b) THEN NaN
    ELSE IF (a.kind = "inf" /\ b.kind = "inf") \/ (is_zero(a) /\ is_zero(b)) THEN NaN
    ELSE IF a.kind = "inf" \/ is_zero(b) THEN inf((a.sign + b.sign) % 2)
    ELSE IF b.kind = "inf" \/ is_zero(a) THEN zero((a.sign + b.sign) % 2)
    ELSE LET k == imax(55 + bits(b.mant) - bits(a.mant), 0)
             d == divmod(shl(a.mant, k), b.mant)
         IN  round_f64((a.sign + b.sign) % 2, d.q, a.exp - b.exp - k, d.r # <<>>)

\* a + b
fadd(a, b) ==
    IF is_nan(a) \/ is_nan(b) THEN NaN
    ELSE IF a.kind = "inf" /\ b.kind = "inf"
    THEN (IF a.sign = b.sign THEN a ELSE NaN)
    ELSE IF a.kind = "inf" THEN a
    ELSE IF b.kind = "inf" THEN b
    ELSE IF is_zero(a) /\ is_zero(b) THEN zero(IF a.sign = b.sign THEN a.sign ELSE 0)
    ELSE IF is_zero(a) THEN b
    ELSE IF is_zero(b) THEN a
    ELSE LET e == imin(a.exp, b.exp)
             x == shl(a.mant, a.exp - e)
             y == shl(b.mant, b.exp - e)
             c == big_cmp(x, y)
         IN  IF a.sign = b.sign THEN round_f64(a.sign, big_add(x, y), e, FALSE)
             ELSE IF c = 0 THEN zero(0)
             ELSE IF c > 0 THEN round_f64(a.sign, big_sub(x, y), e, FALSE)
             ELSE round_f64(b.sign, big_sub(y, x), e, FALSE)

\* -a
fneg(a) == IF is_nan(a) THEN NaN ELSE [a EXCEPT !.sign = 1 - a.sign]

\* a - b
fsub(a, b) == fadd(a, fneg(b))

\* a.powi(2)
powi2(a) == fmul(a, a)

\* a.sqrt(): the root of the mantissa, shifted to an even exponent and to
\* 109 bits or more, is taken to 55 bits or more
fsqrt(a) ==
    IF is_nan(a) THEN NaN
    ELSE IF is_zero(a) THEN a
    ELSE IF a.sign = 1 THEN NaN
    ELSE IF a.kind = "inf" THEN a
    ELSE LET k0 == imax(109 - bits(a.mant), 0)
             k == IF (a.exp - k0) % 2 = 0 THEN k0 ELSE k0 + 1
             s == isqrt(shl(a.mant, k))
         IN  round_f64(0, s.root, (a.exp - k) \div 2, s.rem # <<>>)

\* f64::partial_cmp
partial_cmp(a, b) ==
    IF is_nan(a) \/ is_nan(b) THEN "None"
    ELSE IF is_zero(a) /\ is_zero(b) THEN "Equal"
    ELSE IF a.sign # b.sign \/ is_zero(a) \/ is_zero(b)
    THEN (IF (is_zero(a) /\ b.sign = 0) \/ (~is_zero(a) /\ a.sign = 1)
          THEN "Less" ELSE "Greater")
    ELSE LET top_a == IF a.kind = "inf" THEN 2000 ELSE bits(a.mant) + a.exp
             top_b == IF b.kind = "inf" THEN 2000 ELSE bits(b.mant) + b.exp
             e == imin(a.exp, b.exp)
             c == IF top_a # top_b THEN (IF top_a < top_b THEN -1 ELSE 1)
                  ELSE big_cmp(shl(a.mant, a.exp - e), shl(b.mant, b.exp - e))
         IN  IF c = 0 THEN "Equal"
             ELSE IF (c < 0) = (a.sign = 0) THEN "Less"
             ELSE "Greater"

\* a == b on f64: NaN equals nothing, 0.0 equals -0.0
f64_eq(a, b) == partial_cmp(a, b) = "Equal"

\* The f64 a literal n/d is read as (d > 0)
f64(n, d) == fdiv(from_int(n), from_int(d))

\* format!("{:.p}", x): the sign and the digits printed, the digits as a
\* count of units of 10^-p.  The decimal expansion of the f64 is exact, and
\* it is cut after p places to nearest, a tie to the even digit.
format_fixed(x, p) ==
    IF is_nan(x) THEN "NaN"
    ELSE IF x.kind = "inf" THEN (IF x.sign = 1 THEN "-inf" ELSE "inf")
    ELSE LET n == big_mul(x.mant, big(10 ^ p))
             sh == imax(-x.exp, 0)
             q == shr(n, sh)
             c == IF sh = 0 THEN -1 ELSE big_cmp(low_bits(n, sh), shl(<<1>>, sh - 1))
             up == c > 0 \/ (c = 0 /\ bit(q, 0) = 1)
             r == IF up THEN big_add(q, <<1>>) ELSE q
         IN  [neg |-> x.sign = 1,
              units |-> small(shl(r, imax(x.exp, 0)))]

Commands == {"cmd1", "cmd2"}

Means == {NaN} \cup {from_int(m) : m \in 1..MaxMean}

Stddevs == {from_int(0), from_int(1)}

\* BenchmarkResult, the fields this file reads or the test sets apart
BenchmarkResult == [command : Commands, mean : Means, stddev : Stddevs]

ResultSeqs == SeqsUpTo(BenchmarkResult, MaxResults)

----------------------------------------------------------------------------
(* compare_mean_time, compute_relative_speed: internal.rs 57-90 *)

\* l.mean.partial_cmp(&r.mean).unwrap_or(Ordering::Equal)
compare_mean_time(l, r) ==
    LET o == partial_cmp(l.mean, r.mean)
    IN  IF o = "None" THEN "Equal" ELSE o

\* result == fastest, the derived PartialEq of BenchmarkResult
result_eq(a, b) ==
    /\ a.command = b.command
    /\ f64_eq(a.mean, b.mean)
    /\ f64_eq(a.stddev, b.stddev)

\* A min_by variant with the comparison reversed (max_by).
RECURSIVE min_by_reversed(_, _, _)
min_by_reversed(rs, best, i) ==
    IF i > Len(rs) THEN best
    ELSE IF compare_mean_time(rs[best], rs[i]) = "Less" THEN min_by_reversed(rs, i, i + 1)
    ELSE min_by_reversed(rs, best, i + 1)

\* Iterator::min_by: a left fold that replaces the candidate only when it
\* compares Greater than the next element, so the first minimum is returned.
\* The result is the index of the element the reference points to.
RECURSIVE min_by(_, _, _)
min_by(rs, best, i) ==
    IF i > Len(rs) THEN best
    ELSE IF compare_mean_time(rs[best], rs[i]) = "Greater" THEN min_by(rs, i, i + 1)
    ELSE min_by(rs, best, i + 1)

\* A ratio_stddev variant that leaves out the uncertainty of the fastest mean.
ratio_stddev_own_term(ratio, result, fastest) ==
    fmul(ratio, fsqrt(powi2(fdiv(result.stddev, result.mean))))

\* ratio * ((result.stddev / result.mean).powi(2)
\*          + (fastest.stddev / fastest.mean).powi(2)).sqrt()
ratio_stddev(ratio, result, fastest) ==
    fmul(ratio, fsqrt(fadd(powi2(fdiv(result.stddev, result.mean)),
                           powi2(fdiv(fastest.stddev, fastest.mean)))))

\* 100.0 * (result.mean - fastest.mean) / result.mean
percent_change(result, fastest) ==
    fdiv(fmul(from_int(100), fsub(result.mean, fastest.mean)), result.mean)

\* A variant of the closure that divides the fastest mean by the result's.
annotate_inverted(rs, i, f) ==
    LET result == rs[i]
        fastest == rs[f]
        ratio == fdiv(fastest.mean, result.mean)
    IN  [result |-> i,
         relative_speed |-> ratio,
         relative_speed_stddev |-> ratio_stddev(ratio, result, fastest),
         percent_change |-> percent_change(result, fastest),
         is_fastest |-> result_eq(result, fastest)]

\* A variant of the closure that flags every result whose mean ties the
\* fastest mean.
annotate_by_mean(rs, i, f) ==
    LET result == rs[i]
        fastest == rs[f]
        ratio == fdiv(result.mean, fastest.mean)
    IN  [result |-> i,
         relative_speed |-> ratio,
         relative_speed_stddev |-> ratio_stddev(ratio, result, fastest),
         percent_change |-> percent_change(result, fastest),
         is_fastest |-> f64_eq(result.mean, fastest.mean)]

\* the closure of .map(|result| ...): result is a reference into the slice,
\* kept as its index
annotate(rs, i, f) ==
    LET result == rs[i]
        fastest == rs[f]
        ratio == fdiv(result.mean, fastest.mean)
    IN  [result |-> i,
         relative_speed |-> ratio,
         relative_speed_stddev |-> ratio_stddev(ratio, result, fastest),
         percent_change |-> percent_change(result, fastest),
         is_fastest |-> result_eq(result, fastest)]

\* compute_relative_speed: .expect("at least one benchmark result") panics
\* on the empty slice
compute_relative_speed(rs) ==
    IF rs = <<>> THEN [panicked |-> TRUE, value |-> <<>>]
    ELSE LET f == min_by(rs, 1, 2)
         IN  [panicked |-> FALSE,
              value |-> [i \in 1..Len(rs) |-> annotate(rs, i, f)]]

----------------------------------------------------------------------------
(* write_benchmark_comparison: internal.rs 92-115 *)

\* An insertion that also moves x ahead of elements comparing Equal to it.
RECURSIVE insert_tail_unstable(_, _, _)
insert_tail_unstable(rs, v, x) ==
    IF v = <<>> THEN <<x>>
    ELSE LET y == v[Len(v)]
         IN  IF compare_mean_time(rs[x.result], rs[y.result]) # "Greater"
             THEN Append(insert_tail_unstable(rs, Front(v), x), y)
             ELSE Append(v, x)

\* slice::sort_by on a short slice is an insertion sort: x moves left past
\* every element it compares Less than, and stops at the first it does not.
RECURSIVE insert_tail(_, _, _)
insert_tail(rs, v, x) ==
    IF v = <<>> THEN <<x>>
    ELSE LET y == v[Len(v)]
         IN  IF compare_mean_time(rs[x.result], rs[y.result]) = "Less"
             THEN Append(insert_tail(rs, Front(v), x), y)
             ELSE Append(v, x)

\* slice::sort_by on a slice of at most 20 elements: insertion sort
RECURSIVE insertion_sort(_, _)
insertion_sort(rs, v) ==
    IF v = <<>> THEN <<>>
    ELSE insert_tail(rs, insertion_sort(rs, Front(v)), v[Len(v)])

\* what slice::sort_by asks of its comparator: a total order on rs
is_total_order(rs) ==
    \A i, j, k \in DOMAIN rs :
        /\ (compare_mean_time(rs[i], rs[j]) = "Equal"
              /\ compare_mean_time(rs[j], rs[k]) = "Equal")
             => compare_mean_time(rs[i], rs[k]) = "Equal"
        /\ (compare_mean_time(rs[i], rs[j]) = "Less"
              /\ compare_mean_time(rs[j], rs[k]) # "Greater")
             => compare_mean_time(rs[i], rs[k]) = "Less"
        /\ (compare_mean_time(rs[i], rs[j]) # "Greater"
              /\ compare_mean_time(rs[j], rs[k]) = "Less")
             => compare_mean_time(rs[i], rs[k]) = "Less"

\* annotated_results.sort_by(|l, r| compare_mean_time(l.result, r.result)):
\* the outcomes it can have.  Under a total order, and on any slice of at
\* most 20 elements, it is the stable insertion sort; on a longer slice
\* whose comparator is no total order it panics or leaves the elements in
\* an unspecified order (any arrangement of them).
sort_by(rs, v) ==
    IF Len(v) <= 20 \/ is_total_order(rs)
    THEN {[panicked |-> FALSE, value |-> insertion_sort(rs, v)]}
    ELSE {[panicked |-> TRUE, value |-> <<>>]}
         \cup {r \in [panicked : {FALSE},
                       value : [1..Len(v) -> {v[k] : k \in 1..Len(v)}]] :
                 {r.value[k] : k \in 1..Len(v)} = {v[k] : k \in 1..Len(v)}}

\* println!("  '{}' ran", fastest.result.command)
ran_line(rs, fastest) == [kind |-> "ran", command |-> rs[fastest.result].command]

\* println!("{} ± {} times faster than '{}', -{}%", {:8.2}, {:.2}, command, {:.1})
item_line(rs, item) ==
    [kind |-> "item",
     relative_speed |-> format_fixed(item.relative_speed, 2),
     relative_speed_stddev |-> format_fixed(item.relative_speed_stddev, 2),
     command |-> rs[item.result].command,
     percent_change |-> format_fixed(item.percent_change, 1)]

\* What write_benchmark_comparison does with one outcome s of the sort:
\* the panic goes up and nothing is printed, or the sorted entries are
\* reported.
report(rs, s) ==
    IF s.panicked
    THEN [panicked |-> TRUE, annotated |-> <<>>, output |-> <<>>]
    ELSE LET fastest == s.value[1]
             others == Tail(s.value)
         IN  [panicked |-> FALSE,
              annotated |-> s.value,
              output |-> <<[kind |-> "summary"], ran_line(rs, fastest)>>
                         \o [k \in 1..Len(others) |-> item_line(rs, others[k])]]

\* The body of write_benchmark_comparison after the length check: its
\* outcomes, one for each outcome of the sort.
write_summary(rs) ==
    LET computed == compute_relative_speed(rs)
    IN  IF computed.panicked
        THEN {[panicked |-> TRUE, annotated |-> <<>>, output |-> <<>>]}
        ELSE {report(rs, s) : s \in sort_by(rs, computed.value)}

\* A write_benchmark_comparison without the early return.
write_benchmark_comparison_unguarded(rs) == write_summary(rs)

\* write_benchmark_comparison: its outcomes
write_benchmark_comparison(rs) ==
    IF Len(rs) < 2
    THEN {[panicked |-> FALSE, annotated |-> <<>>, output |-> <<>>]}
    ELSE write_summary(rs)

InitRel ==
    /\ results \in ResultSeqs
    /\ annotated = <<>>
    /\ output = <<>>
    /\ pc = "start"
    /\ values = <<>>
    /\ iter = 1
    /\ buf = <<>>
    /\ tokens = <<>>
    /\ orig = <<>>

\* a call of compute_relative_speed(&results)
ComputeRelativeSpeed ==
    /\ pc = "start"
    /\ LET r == compute_relative_speed(results)
       IN  /\ annotated' = r.value
           /\ pc' = IF r.panicked THEN "compute_panicked" ELSE "computed"
    /\ UNCHANGED <<results, output, tokvars>>

\* a call of write_benchmark_comparison(&results)
WriteBenchmarkComparison ==
    /\ pc = "start"
    /\ \E r \in write_benchmark_comparison(results) :
           /\ annotated' = r.annotated
           /\ output' = r.output
           /\ pc' = IF r.panicked THEN "write_panicked" ELSE "written"
    /\ UNCHANGED <<results, tokvars>>

NextRel ==
    \/ ComputeRelativeSpeed
    \/ WriteBenchmarkComparison

SpecRel == InitRel /\ [][NextRel]_vars

----------------------------------------------------------------------------
(* Properties of tokenize *)

\* Positions of the commas of s that the scan from position i does not
\* consume as the second character of a backslash pair.
RECURSIVE UnescapedCommas(_, _)
UnescapedCommas(s, i) ==
    IF i > Len(s) THEN {}
    ELSE IF s[i] = BS THEN UnescapedCommas(s, i + 2)
    ELSE IF s[i] = COMMA THEN {i} \cup UnescapedCommas(s, i + 1)
    ELSE UnescapedCommas(s, i + 1)

\* The text a comma-free stretch of the input stands for.
RECURSIVE Unescaped(_)
Unescaped(s) ==
    IF s = <<>> THEN <<>>
    ELSE IF Head(s) # BS THEN <<Head(s)>> \o Unescaped(Tail(s))
    ELSE IF Len(s) = 1 THEN <<BS>>
    ELSE IF s[2] = COMMA \/ s[2] = BS THEN <<s[2]>> \o Unescaped(Tail(Tail(s)))
    ELSE <<BS, s[2]>> \o Unescaped(Tail(Tail(s)))

\* The k-th stretch of s between consecutive unescaped commas.
Stretch(s, k) ==
    LET U == UnescapedCommas(s, 1)
        before == {p \in U : Cardinality({q \in U : q <= p}) = k - 1}
        after == {p \in U : Cardinality({q \in U : q <= p}) = k}
        lo == IF before = {} THEN 1 ELSE (CHOOSE p \in before : TRUE) + 1
        hi == IF after = {} THEN Len(s) ELSE (CHOOSE p \in after : TRUE) - 1
    IN  SubSeq(s, lo, hi)

\* C1: when tokenize returns, the result is non-empty, has exactly (number of
\* unescaped commas) + 1 tokens, token k is the text of the k-th stretch of
\* the input between unescaped commas (input order), and so the empty input
\* gives one empty token and a leading, trailing or doubled unescaped comma
\* gives an empty token at that position.
C1_TokenCount ==
    pc = "done" =>
        LET U == UnescapedCommas(values, 1)
            n == Cardinality(U)
        IN  /\ Len(tokens) >= 1
            /\ Len(tokens) = n + 1
            /\ \A k \in 1..Len(tokens) : tokens[k] = Unescaped(Stretch(values, k))
            /\ values = <<>> => tokens = << <<>> >>
            /\ \A p \in U :
                 LET k == Cardinality({q \in U : q <= p})
                 IN  /\ p = 1 => tokens[k] = <<>>
                     /\ p = Len(values) => tokens[k + 1] = <<>>
                     /\ p + 1 \in U => tokens[k + 1] = <<>>

\* tokenize("a,,\,") = ["a", "", ","] has been computed.
C1_Witness ==
    /\ pc = "done"
    /\ values = <<"a", COMMA, COMMA, BS, COMMA>>
    /\ tokens = << <<"a">>, <<>>, <<COMMA>> >>

\* C2, one scan step: at a backslash the scan consumes the following
\* character with it (when there is one), appends the literal second
\* character for '\,' and '\\', both characters for any other pair, a single
\* backslash at end of input, and never ends the current token.
C2_Step ==
    (pc = "scan" /\ iter <= Len(values) /\ values[iter] = BS) =>
        /\ tokens' = tokens
        /\ pc' = "scan"
        /\ IF iter = Len(values)
           THEN iter' = iter + 1 /\ buf' = buf \o <<BS>>
           ELSE LET c2 == values[iter + 1]
                IN  /\ iter' = iter + 2
                    /\ buf' = buf \o (IF c2 \in {COMMA, BS} THEN <<c2>> ELSE <<BS, c2>>)

\* C2: every step taken at a backslash is a pair step as above, and
\* tokenize("\\\,") is the single token "\,".
C2_BackslashPairs ==
    /\ [][C2_Step]_vars
    /\ [](pc = "done" /\ values = <<BS, BS, BS, COMMA>>
            => tokens = << <<BS, COMMA>> >>)

\* tokenize("\n\\\") = ["\n\\"] has been computed: an unrecognised pair, an
\* escaped backslash and a backslash at end of input.
C2_Witness ==
    /\ pc = "done"
    /\ values = <<BS, "n", BS, BS, BS>>
    /\ tokens = << <<BS, "n", BS, BS>> >>

\* C10: round trip.  When the input is the ','-join of the escaped values of
\* a non-empty list, tokenize returns exactly that list.
C10_RoundTrip ==
    (pc = "done" /\ orig # <<>>) => tokens = orig

\* The list ["\,", ","] went through escape, join and tokenize.
C10_Witness ==
    /\ pc = "done"
    /\ orig = << <<BS, COMMA>>, <<COMMA>> >>
    /\ values = <<BS, BS, BS, COMMA, COMMA, BS, COMMA>>
    /\ tokens = orig

----------------------------------------------------------------------------
(* Properties of the comparison *)

Finite(rs) == \A i \in DOMAIN rs : ~is_nan(rs[i].mean)

\* a < b
Lt(a, b) == partial_cmp(a, b) = "Less"

One == from_int(1)

Zero == from_int(0)

\* The minimum of the means of rs that are numbers (NaN when none is).
MinMean(rs) ==
    LET ms == {rs[i].mean : i \in DOMAIN rs} \ {NaN}
    IN  IF ms = {} THEN NaN ELSE CHOOSE m \in ms : \A x \in ms : ~Lt(x, m)

\* The first index, in input order, of a result with the minimum mean.
FirstMin(rs) ==
    CHOOSE i \in DOMAIN rs :
        /\ rs[i].mean = MinMean(rs)
        /\ \A j \in DOMAIN rs : rs[j].mean = MinMean(rs) => i <= j

\* C3: on a non-empty slice of positive finite means compute_relative_speed
\* returns one element per input result, element i referring to result i,
\* with relative_speed[i] = mean[i] / (minimum mean), hence >= 1.0, and
\* exactly 1.0 where the mean is the minimum mean.
C3_RelativeSpeed ==
    (pc = "computed" /\ Finite(results)) =>
        /\ Len(annotated) = Len(results)
        /\ \A i \in DOMAIN results :
             /\ annotated[i].result = i
             /\ annotated[i].relative_speed
                  = fdiv(results[i].mean, MinMean(results))
             /\ ~Lt(annotated[i].relative_speed, One)
             /\ results[i].mean = MinMean(results)
                  => annotated[i].relative_speed = One

\* Means 3.0, 2.0, 3.0 gave relative speeds 1.5, 1.0, 1.5.
C3_Witness ==
    /\ pc = "computed"
    /\ Len(results) = 3
    /\ results[1].mean = f64(3, 1) /\ results[2].mean = f64(2, 1)
    /\ results[3].mean = f64(3, 1)
    /\ annotated[1].relative_speed = f64(3, 2)
    /\ annotated[2].relative_speed = One
    /\ annotated[3].relative_speed = f64(3, 2)

\* C4 as stated: a singleton [{mean: m, stddev: d}], m > 0, d >= 0, yields
\* relative_speed 1.0, relative_speed_stddev 0.0, percent_change 0.0 and
\* is_fastest.
C4_SingletonAsStated ==
    (pc = "computed" /\ Len(results) = 1 /\ Finite(results)) =>
        /\ annotated[1].relative_speed = One
        /\ annotated[1].relative_speed_stddev = Zero
        /\ annotated[1].percent_change = Zero
        /\ annotated[1].is_fastest

\* C4, amended: a singleton [{mean: m, stddev: d}], m > 0, d >= 0, yields
\* relative_speed 1.0, percent_change 0.0, is_fastest, and
\* relative_speed_stddev = sqrt((d/m)^2 + (d/m)^2), which is 0.0 for d = 0
\* and above d/m otherwise.
C4_Singleton ==
    (pc = "computed" /\ Len(results) = 1 /\ Finite(results)) =>
        LET m == results[1].mean
            d == results[1].stddev
        IN  /\ annotated[1].relative_speed = One
            /\ annotated[1].percent_change = Zero
            /\ annotated[1].is_fastest
            /\ annotated[1].relative_speed_stddev
                 = fsqrt(fadd(powi2(fdiv(d, m)), powi2(fdiv(d, m))))
            /\ annotated[1].relative_speed_stddev = Zero <=> d = Zero
            /\ d # Zero => Lt(fdiv(d, m), annotated[1].relative_speed_stddev)

\* The singleton [{mean 2.0, stddev 1.0}] gave relative_speed_stddev
\* sqrt(0.5) = 0.7071..., which prints as 0.71.
C4_Witness ==
    /\ pc = "computed"
    /\ Len(results) = 1
    /\ results[1].mean = f64(2, 1)
    /\ results[1].stddev = One
    /\ annotated[1].relative_speed_stddev = fsqrt(f64(1, 2))
    /\ Lt(f64(7071, 10000), annotated[1].relative_speed_stddev)
    /\ Lt(annotated[1].relative_speed_stddev, f64(7072, 10000))
    /\ format_fixed(annotated[1].relative_speed_stddev, 2) = [neg |-> FALSE, units |-> 71]
    /\ annotated[1].is_fastest

\* C5: when the means are positive, finite and pairwise distinct, is_fastest
\* is true for exactly one output element, the one with the minimum mean.
C5_OneFastest ==
    (pc = "computed" /\ Finite(results)
       /\ \A i, j \in DOMAIN results : i # j => results[i].mean # results[j].mean) =>
        LET flagged == {i \in DOMAIN annotated : annotated[i].is_fastest}
        IN  /\ Cardinality(flagged) = 1
            /\ \A i \in flagged : results[i].mean = MinMean(results)

\* Three distinct means with the minimum in the last place: only it is flagged.
C5_Witness ==
    /\ pc = "computed"
    /\ Len(results) = 3
    /\ Finite(results)
    /\ Lt(results[2].mean, results[1].mean)
    /\ Lt(results[3].mean, results[2].mean)
    /\ {i \in DOMAIN annotated : annotated[i].is_fastest} = {3}

\* C6: given fewer than 2 results write_benchmark_comparison prints nothing
\* and does not fail; given 2 or more with positive finite means it does
\* not fail either, the command of the 'ran' line is that of a result with
\* the minimum mean and every relative speed printed (two decimals) is
\* >= 1.00.
C6_Comparison ==
    /\ pc = "write_panicked" => (Len(results) >= 2 /\ ~Finite(results))
    /\ (pc = "written" /\ Len(results) < 2) => output = <<>>
    /\ (pc = "written" /\ Len(results) >= 2 /\ Finite(results)) =>
        /\ Len(output) >= 2
        /\ output[1].kind = "summary"
        /\ output[2].kind = "ran"
        /\ \E i \in DOMAIN results :
             /\ results[i].mean = MinMean(results)
             /\ results[i].command = output[2].command
        /\ \A k \in 3..Len(output) :
             /\ output[k].kind = "item"
             /\ ~output[k].relative_speed.neg
             /\ output[k].relative_speed.units >= 100

\* A report on three results whose fastest is cmd2, given last.
C6_Witness ==
    /\ pc = "written"
    /\ Len(results) = 3
    /\ Finite(results)
    /\ results[1].command = "cmd1" /\ results[2].command = "cmd1"
    /\ results[3].command = "cmd2"
    /\ Lt(results[3].mean, results[1].mean) /\ Lt(results[3].mean, results[2].mean)
    /\ output[2] = [kind |-> "ran", command |-> "cmd2"]
    /\ Len(output) = 4

\* A single result was handed to write_benchmark_comparison and nothing was
\* printed.
C6_WitnessSingle ==
    pc = "written" /\ Len(results) = 1 /\ output = <<>>

\* C7: for 2 or more results with positive finite means the report is in
\* ascending order of mean with equal means in input order; its first entry
\* is the baseline and each of the other n-1 results is printed exactly
\* once, in that order, with its own relative_speed, relative_speed_stddev
\* and percent_change as computed by compute_relative_speed.
C7_StableOrder ==
    (pc = "written" /\ Len(results) >= 2 /\ Finite(results)) =>
        LET n == Len(results)
            computed == compute_relative_speed(results).value
        IN  /\ Len(annotated) = n
            /\ {annotated[k].result : k \in 1..n} = 1..n
            /\ \A k \in 1..(n - 1) :
                 LET a == annotated[k].result
                     b == annotated[k + 1].result
                 IN  \/ Lt(results[a].mean, results[b].mean)
                     \/ results[a].mean = results[b].mean /\ a < b
            /\ \A k \in 1..n : annotated[k] = computed[annotated[k].result]
            /\ Len(output) = n + 1
            /\ output[2] = [kind |-> "ran",
                            command |-> results[annotated[1].result].command]
            /\ \A k \in 2..n :
                 LET c == computed[annotated[k].result]
                 IN  output[k + 1] =
                       [kind |-> "item",
                        relative_speed |-> format_fixed(c.relative_speed, 2),
                        relative_speed_stddev |-> format_fixed(c.relative_speed_stddev, 2),
                        command |-> results[annotated[k].result].command,
                        percent_change |-> format_fixed(c.percent_change, 1)]

\* Means 2.0, 1.0, 1.0 were reported in the order 2nd, 3rd, 1st.
C7_Witness ==
    /\ pc = "written"
    /\ Len(results) = 3
    /\ results[1].mean = f64(2, 1)
    /\ results[2].mean = One /\ results[3].mean = One
    /\ results[2].command # results[3].command
    /\ <<annotated[1].result, annotated[2].result, annotated[3].result>> = <<2, 3, 1>>
    /\ output[3].command = results[3].command
    /\ output[4].relative_speed = [neg |-> FALSE, units |-> 200]

Leq(l, r) == compare_mean_time(l, r) \in {"Less", "Equal"}

\* C8: the comparator never fails, returns Equal for every pair in which a
\* mean is NaN, and is consistent as an ordering: Equal is transitive and
\* so is <=, over the results of any input.
C8_ComparatorTotalOrder ==
    \A i, j, k \in DOMAIN results :
        LET a == results[i]
            b == results[j]
            c == results[k]
        IN  /\ compare_mean_time(a, b) \in {"Less", "Equal", "Greater"}
            /\ (is_nan(a.mean) \/ is_nan(b.mean)) => compare_mean_time(a, b) = "Equal"
            /\ (compare_mean_time(a, b) = "Equal" /\ compare_mean_time(b, c) = "Equal")
                 => compare_mean_time(a, c) = "Equal"
            /\ (Leq(a, b) /\ Leq(b, c)) => Leq(a, c)

\* C9: for means that are numbers, the reference is the first result, in
\* input order, among those with the minimum mean (every relative speed is
\* taken against it); is_fastest[i] holds iff result i equals the reference
\* in every field, so a copy of the reference is flagged too while a result
\* that ties for the minimum mean but differs in another field is not,
\* though its relative_speed is 1.0 and its percent_change 0.0; and the
\* baseline of the report is an entry with is_fastest = true.
C9_FastestFlag ==
    Finite(results) =>
        /\ (pc = "computed") =>
             LET f == FirstMin(results)
             IN  \A i \in DOMAIN results :
                   /\ annotated[i].relative_speed
                        = fdiv(results[i].mean, results[f].mean)
                   /\ annotated[i].is_fastest <=> results[i] = results[f]
                   /\ (results[i].mean = MinMean(results) /\ results[i] # results[f])
                        => /\ ~annotated[i].is_fastest
                           /\ annotated[i].relative_speed = One
                           /\ annotated[i].percent_change = Zero
        /\ (pc = "written" /\ Len(results) >= 2) =>
             /\ annotated[1].is_fastest
             /\ annotated[1].result = FirstMin(results)

\* Three results tie for the minimum mean; the third is a copy of the first
\* and is flagged with it, the second differs in its command and is not.
C9_Witness ==
    /\ pc = "computed"
    /\ Len(results) = 3
    /\ results[1] = [command |-> "cmd1", mean |-> One, stddev |-> One]
    /\ results[2] = [command |-> "cmd2", mean |-> One, stddev |-> One]
    /\ results[3] = results[1]
    /\ annotated[1].is_fastest /\ annotated[3].is_fastest
    /\ ~annotated[2].is_fastest
    /\ annotated[2].relative_speed = One
    /\ annotated[2].percent_change = Zero

====
